---- MODULE Spec2Model ----
(***************************************************************************)
(* Event-sourcing aggregate core of src/2_idioms/2_3_bound_impl/src/main.rs *)
(* EventNumber, Version, HydratedAggregate and the AggregateError results.  *)
(*                                                                          *)
(* The aggregate type A and the event type E are generic in the source, so  *)
(* the projected state is modelled by the free aggregate: the sequence of   *)
(* the events folded into it, in the order they were folded.  Every         *)
(* concrete A is a function of that sequence.                               *)
(*                                                                          *)
(* Next to it: the LinkedList and ConcurrentList of src/1_concepts/src and  *)
(* the SyncAndSend counter of src/1_concepts/1_8_thread_safety/src/main.rs, *)
(* each under a specification of its own.                                   *)
(***************************************************************************)
EXTENDS Integers, Sequences, FiniteSets, TLC

----------------------------------------------------------------------------
(* Bounds of the model *)

\* Stand-in for u64::MAX: the largest value an EventNumber can hold.  The
\* source's 2^64 - 1 is scaled down so that the overflow edge is reachable.
U64_MAX == 7

\* Longest projected state (number of events folded) the model explores.
MaxLog == 9

\* Longest batch handed to apply_events.
MaxBatch == 3

\* Most apply-family calls recorded in one optimistic-concurrency session.
MaxCalls == 3

\* Stand-in for usize::MAX, the largest value LinkedList.len can hold.
USIZE_MAX == 15

\* Most nodes a list allocates in one run.
MaxNodes == 4

\* Threads that push to the shared list (8 in test_multithreaded).
ListThreads == 4

\* Threads that increment the shared counter (10 in the source's test).
CounterThreads == 3

\* increment() calls of each of those threads (100 in the source's test).
Increments == 2

----------------------------------------------------------------------------
(* Values *)

\* event_type() labels of the two Event implementations of the source.
Events == {"Increment", "UserCreated"}

\* Build profiles: with overflow checks (debug) a plain `+` that overflows
\* panics, without them (release) it wraps modulo 2^64.
Builds == {"debug", "release"}

Initial == [tag |-> "Initial"]

Number(n) == [tag |-> "Number", n |-> n]

\* EventNumber wraps a NonZeroU64.
EventNumbers == 1..U64_MAX

Versions == {Initial} \cup {Number(n) : n \in EventNumbers}

MIN_VALUE == 1

NoneV == [tag |-> "None"]

SomeV(v) == [tag |-> "Some", v |-> v]

Ok == [tag |-> "Ok"]

VersionOverflow == [tag |-> "VersionOverflow"]

InvalidSequence == [tag |-> "InvalidSequence"]

VersionMismatch(e, a) == [tag |-> "VersionMismatch", expected |-> e, actual |-> a]

\* A panic is not an AggregateError: it unwinds instead of returning.
Panic == [tag |-> "Panic"]

----------------------------------------------------------------------------
(* u64 arithmetic *)

\* u64::checked_add: None on overflow.
checked_add(x, y) == IF x + y > U64_MAX THEN NoneV ELSE SomeV(x + y)

\* NonZeroU64::new: None for zero.
NonZeroU64_new(x) == IF x = 0 THEN NoneV ELSE SomeV(x)

\* The plain `+` on u64: panics on overflow with overflow checks, wraps
\* without them.
u64_add(x, y, build) ==
    IF x + y > U64_MAX
    THEN IF build = "debug" THEN Panic ELSE SomeV((x + y) % (U64_MAX + 1))
    ELSE SomeV(x + y)

----------------------------------------------------------------------------
(* EventNumber and Version *)

\* Mutant: the next value is computed but never stored in self.
Mut_EventNumber_incr_not_stored(en) ==
    LET next == checked_add(en, 1) IN
    IF next.tag = "None"
    THEN [self |-> en, res |-> VersionOverflow]
    ELSE [self |-> en, res |-> Ok]

\* Mutant: the addition wraps and the zero it yields is replaced by the
\* smallest number instead of being reported.
Mut_EventNumber_incr_wraps(en) ==
    IF en + 1 > U64_MAX
    THEN [self |-> 1, res |-> Ok]
    ELSE [self |-> en + 1, res |-> Ok]

\* EventNumber::incr(&mut self): the new value of self and the result.
EventNumber_incr(en) ==
    LET next == checked_add(en, 1) IN
    IF next.tag = "None"
    THEN [self |-> en, res |-> VersionOverflow]
    ELSE LET nz == NonZeroU64_new(next.v) IN
         IF nz.tag = "None"
         THEN [self |-> en, res |-> VersionOverflow]
         ELSE [self |-> nz.v, res |-> Ok]

\* Mutant: the number is wrapped without the zero check.
Mut_Version_new_no_zero_check(number) == Number(number)

\* Mutant: the smallest number is taken for the sentinel too.
Mut_Version_new_one_is_initial(number) ==
    IF number > MIN_VALUE THEN Number(number) ELSE Initial

\* Version::new(number)
Version_new(number) ==
    LET nz == NonZeroU64_new(number) IN
    IF nz.tag = "Some" THEN Number(nz.v) ELSE Initial

\* Mutant: the first event is numbered like any other, 0 + 1 past MIN_VALUE.
Mut_Version_incr_skips_first(v) ==
    IF v.tag = "Initial"
    THEN [self |-> Number(MIN_VALUE + 1), res |-> Ok]
    ELSE LET r == EventNumber_incr(v.n) IN
         [self |-> Number(r.self), res |-> r.res]

\* Version::incr(&mut self): the new value of self and the result.
Version_incr(v) ==
    IF v.tag = "Initial"
    THEN [self |-> Number(MIN_VALUE), res |-> Ok]
    ELSE LET r == EventNumber_incr(v.n) IN
         [self |-> Number(r.self), res |-> r.res]

\* Ord for NonZeroU64: the order of the integers.
NonZeroU64_cmp(a, b) ==
    IF a < b THEN "Less" ELSE IF a = b THEN "Equal" ELSE "Greater"

\* impl Ord for EventNumber: self.0.cmp(&other.0)
EventNumber_cmp(a, b) == NonZeroU64_cmp(a, b)

\* impl PartialEq for EventNumber: self.0 == other.0
EventNumber_eq(a, b) == a = b

\* Position of a variant in the declaration of enum Version.
Version_discriminant(v) == IF v.tag = "Initial" THEN 0 ELSE 1

\* Mutant: the variants are declared Number first, Initial second.
Mut_Version_cmp_number_first(a, b) ==
    IF Version_discriminant(a) # Version_discriminant(b)
    THEN IF Version_discriminant(a) > Version_discriminant(b)
         THEN "Less" ELSE "Greater"
    ELSE IF a.tag = "Number" THEN EventNumber_cmp(a.n, b.n) ELSE "Equal"

\* #[derive(PartialOrd, Ord)] on Version: first by variant, then by field.
Version_cmp(a, b) ==
    IF Version_discriminant(a) # Version_discriminant(b)
    THEN IF Version_discriminant(a) < Version_discriminant(b)
         THEN "Less" ELSE "Greater"
    ELSE IF a.tag = "Number" THEN EventNumber_cmp(a.n, b.n) ELSE "Equal"

\* #[derive(PartialEq, Eq)] on Version: same variant and equal fields.
Version_eq(a, b) ==
    /\ a.tag = b.tag
    /\ a.tag = "Number" => EventNumber_eq(a.n, b.n)

\* Version::validate_sequence(&self, previous) under a build profile.
Version_validate_sequence(self, previous, build) ==
    IF previous.tag = "Initial" /\ self.tag = "Number" /\ self.n = MIN_VALUE
    THEN Ok
    ELSE IF previous.tag = "Number" /\ self.tag = "Number"
         THEN LET succ == u64_add(previous.n, 1, build) IN
              IF succ.tag = "Panic" THEN Panic
              ELSE IF self.n = succ.v THEN Ok ELSE InvalidSequence
         ELSE InvalidSequence

----------------------------------------------------------------------------
(* Aggregate, AggregateEvent and HydratedAggregate *)

\* A::default(): no event folded yet.
Aggregate_default == << >>

\* AggregateEvent::apply_to(self, aggregate): the event's effect on the state.
AggregateEvent_apply_to(event, aggregate) == Append(aggregate, event)

\* Aggregate::apply(&mut self, event): delegates to the event.
Aggregate_apply(aggregate, event) == AggregateEvent_apply_to(event, aggregate)

\* The struct HydratedAggregate<A>.
HydratedAggregate(v, sv, s) ==
    [version |-> v, snapshot_version |-> sv, state |-> s]

\* HydratedAggregate::default()
HydratedAggregate_default ==
    HydratedAggregate(Initial, NoneV, Aggregate_default)

\* Mutant: the given state is taken for a snapshot of the initial version.
Mut_new_marks_snapshot(s) == HydratedAggregate(Initial, SomeV(Initial), s)

\* HydratedAggregate::new(state)
HydratedAggregate_new(s) == HydratedAggregate(Initial, NoneV, s)

\* Mutant: the version is advanced first and the event is dropped when that
\* fails.
Mut_apply_version_first(agg, event) ==
    LET r == Version_incr(agg.version) IN
    IF r.res # Ok
    THEN [agg |-> agg, res |-> r.res]
    ELSE [agg |-> HydratedAggregate(r.self, agg.snapshot_version,
                                    Aggregate_apply(agg.state, event)),
          res |-> Ok]

\* Mutant: every applied event also moves the snapshot marker.
Mut_apply_marks_snapshot(agg, event) ==
    LET s == Aggregate_apply(agg.state, event)
        r == Version_incr(agg.version)
    IN [agg |-> HydratedAggregate(r.self, SomeV(r.self), s), res |-> r.res]

\* HydratedAggregate::apply(&mut self, event): state first, then version.
HydratedAggregate_apply(agg, event) ==
    LET s == Aggregate_apply(agg.state, event)
        r == Version_incr(agg.version)
    IN [agg |-> HydratedAggregate(r.self, agg.snapshot_version, s),
        res |-> r.res]

\* Mutant: the loop stops one event short.
RECURSIVE Mut_apply_events_drops_last(_, _)
Mut_apply_events_drops_last(agg, events) ==
    IF Len(events) <= 1
    THEN [agg |-> agg, res |-> Ok, done |-> 0]
    ELSE LET r == HydratedAggregate_apply(agg, Head(events)) IN
         IF r.res # Ok
         THEN [agg |-> r.agg, res |-> r.res, done |-> 0]
         ELSE LET rest == Mut_apply_events_drops_last(r.agg, Tail(events))
              IN [rest EXCEPT !.done = @ + 1]

\* Mutant: the events are taken from the back of the sequence.
RECURSIVE Mut_apply_events_reversed(_, _)
Mut_apply_events_reversed(agg, events) ==
    IF events = << >>
    THEN [agg |-> agg, res |-> Ok, done |-> 0]
    ELSE LET r == HydratedAggregate_apply(agg, events[Len(events)]) IN
         IF r.res # Ok
         THEN [agg |-> r.agg, res |-> r.res, done |-> 0]
         ELSE LET rest == Mut_apply_events_reversed(
                              r.agg, SubSeq(events, 1, Len(events) - 1))
              IN [rest EXCEPT !.done = @ + 1]

\* Mutant: an error is remembered but the loop goes on to the end.
RECURSIVE Mut_apply_events_no_short_circuit(_, _)
Mut_apply_events_no_short_circuit(agg, events) ==
    IF events = << >>
    THEN [agg |-> agg, res |-> Ok, done |-> 0]
    ELSE LET r == HydratedAggregate_apply(agg, Head(events))
             rest == Mut_apply_events_no_short_circuit(r.agg, Tail(events))
         IN IF r.res # Ok
            THEN [agg |-> rest.agg, res |-> r.res, done |-> 0]
            ELSE [rest EXCEPT !.done = @ + 1]

\* Mutant: a batch that cannot be applied in full is reported as a broken
\* sequence.
RECURSIVE Mut_apply_events_invalid_sequence(_, _)
Mut_apply_events_invalid_sequence(agg, events) ==
    IF events = << >>
    THEN [agg |-> agg, res |-> Ok, done |-> 0]
    ELSE LET r == HydratedAggregate_apply(agg, Head(events)) IN
         IF r.res # Ok
         THEN [agg |-> r.agg, res |-> InvalidSequence, done |-> 0]
         ELSE LET rest == Mut_apply_events_invalid_sequence(r.agg, Tail(events))
              IN [rest EXCEPT !.done = @ + 1]

\* HydratedAggregate::apply_events(&mut self, events): stops at the first Err.
\* `done` counts the iterations of the loop whose apply returned Ok.
RECURSIVE HydratedAggregate_apply_events(_, _)
HydratedAggregate_apply_events(agg, events) ==
    IF events = << >>
    THEN [agg |-> agg, res |-> Ok, done |-> 0]
    ELSE LET r == HydratedAggregate_apply(agg, Head(events)) IN
         IF r.res # Ok
         THEN [agg |-> r.agg, res |-> r.res, done |-> 0]
         ELSE LET rest == HydratedAggregate_apply_events(r.agg, Tail(events))
              IN [rest EXCEPT !.done = @ + 1]

\* Mutant: the error reports the two versions in each other's place.
Mut_mismatch_fields_swapped(agg, event, expected_version) ==
    IF agg.version # expected_version
    THEN [agg |-> agg,
          res |-> VersionMismatch(agg.version, expected_version)]
    ELSE HydratedAggregate_apply(agg, event)

\* Mutant: the event is applied before the version is compared.
Mut_check_after_apply(agg, event, expected_version) ==
    LET r == HydratedAggregate_apply(agg, event) IN
    IF agg.version # expected_version
    THEN [agg |-> r.agg,
          res |-> VersionMismatch(expected_version, agg.version)]
    ELSE r

\* HydratedAggregate::apply_with_concurrency_check(&mut self, event, expected)
HydratedAggregate_apply_with_concurrency_check(agg, event, expected_version) ==
    IF agg.version # expected_version
    THEN [agg |-> agg,
          res |-> VersionMismatch(expected_version, agg.version)]
    ELSE HydratedAggregate_apply(agg, event)

\* Mutant: the version is moved to the snapshot's version as well.
Mut_set_snapshot_version_moves_version(agg, new_snapshot_version) ==
    HydratedAggregate(new_snapshot_version, SomeV(new_snapshot_version), agg.state)

\* HydratedAggregate::set_snapshot_version(&mut self, new_snapshot_version)
HydratedAggregate_set_snapshot_version(agg, new_snapshot_version) ==
    HydratedAggregate(agg.version, SomeV(new_snapshot_version), agg.state)

\* Mutant: writing the state starts the version over.
Mut_state_mut_resets_version(agg, new_state) ==
    HydratedAggregate(Initial, agg.snapshot_version, new_state)

\* agg.state_mut(): a mutable reference to the state, through which the
\* caller writes new_state.
HydratedAggregate_state_mut(agg, new_state) ==
    HydratedAggregate(agg.version, agg.snapshot_version, new_state)

\* Mutant: the clone starts over from the initial version.
Mut_clone_resets_version(agg) ==
    HydratedAggregate(Initial, agg.snapshot_version, agg.state)

\* HydratedAggregate::clone
HydratedAggregate_clone(agg) ==
    HydratedAggregate(agg.version, agg.snapshot_version, agg.state)

\* struct Entity
Entity(i, aggregate) == [id |-> i, aggregate |-> aggregate]

\* Mutant: the event is applied to a copy of the aggregate, which is dropped.
Mut_Entity_apply_event_on_copy(entity, event) ==
    [entity |-> entity,
     res |-> HydratedAggregate_apply(entity.aggregate, event).res]

\* Entity::apply_event
Entity_apply_event(entity, event) ==
    LET r == HydratedAggregate_apply(entity.aggregate, event)
    IN [entity |-> Entity(entity.id, r.agg), res |-> r.res]

----------------------------------------------------------------------------
(* LinkedList of src/1_concepts/src/linked_list.rs.  The nodes live behind  *)
(* Arc<Mutex<..>>: `nodes` is the heap, a node's address is its index, and  *)
(* a link is None or Some(address).  head is the back end and tail is the   *)
(* front end of the list.                                                   *)

\* Node::new
Node_new(val) == [next |-> NoneV, prev |-> NoneV, val |-> val]

\* struct LinkedList
LinkedList(h, t, l, heap) == [head |-> h, tail |-> t, len |-> l, nodes |-> heap]

\* LinkedList::new
LinkedList_new == LinkedList(NoneV, NoneV, 0, << >>)

\* self.len -= 1 on a usize: a panic with overflow checks, a wrap without.
usize_decr(x, build) ==
    IF x > 0 THEN SomeV(x - 1)
    ELSE IF build = "debug" THEN Panic ELSE SomeV(USIZE_MAX)

\* Mutant: the old back node is not linked forward to the new one.
Mut_push_back_no_next_link(list, val) ==
    LET node == Len(list.nodes) + 1
        heap == Append(list.nodes, Node_new(val))
    IN IF list.head # NoneV
       THEN LinkedList(SomeV(node), list.tail, list.len + 1,
                       [heap EXCEPT ![node].prev = list.head])
       ELSE LinkedList(SomeV(node), SomeV(node), list.len + 1, heap)

\* LinkedList::push_back
LinkedList_push_back(list, val) ==
    LET node == Len(list.nodes) + 1
        heap == Append(list.nodes, Node_new(val))
    IN IF list.head # NoneV
       THEN LinkedList(SomeV(node), list.tail, list.len + 1,
                       [heap EXCEPT ![list.head.v].next = SomeV(node),
                                    ![node].prev = list.head])
       ELSE LinkedList(SomeV(node), SomeV(node), list.len + 1, heap)

\* LinkedList::push_front
LinkedList_push_front(list, val) ==
    LET node == Len(list.nodes) + 1
        heap == Append(list.nodes, Node_new(val))
    IN IF list.tail # NoneV
       THEN LinkedList(list.head, SomeV(node), list.len + 1,
                       [heap EXCEPT ![list.tail.v].prev = SomeV(node),
                                    ![node].next = list.tail])
       ELSE LinkedList(SomeV(node), SomeV(node), list.len + 1, heap)

\* What a pop leaves behind and returns once the links are rewritten: the
\* decrement of len comes last, and a panic there leaves the links as they are.
Popped(h, t, heap, l, popped, build) ==
    LET n == usize_decr(l, build)
    IN IF n.tag = "Panic"
       THEN [list |-> LinkedList(h, t, l, heap), out |-> Panic]
       ELSE [list |-> LinkedList(h, t, n.v, heap), out |-> SomeV(popped)]

\* LinkedList::pop_back
LinkedList_pop_back(list, build) ==
    IF list.head = NoneV
    THEN [list |-> list, out |-> NoneV]
    ELSE LET h == list.head.v
             prev == list.nodes[h].prev
             taken == [list.nodes EXCEPT ![h].prev = NoneV]
         IN IF prev # NoneV
            THEN Popped(prev, list.tail,
                        [taken EXCEPT ![prev.v].next = NoneV],
                        list.len, list.nodes[h].val, build)
            ELSE Popped(NoneV, list.tail, taken,
                        list.len, list.nodes[h].val, build)

\* LinkedList::pop_front
LinkedList_pop_front(list, build) ==
    IF list.tail = NoneV
    THEN [list |-> list, out |-> NoneV]
    ELSE LET t == list.tail.v
             next == list.nodes[t].next
             taken == [list.nodes EXCEPT ![t].next = NoneV]
         IN IF next # NoneV
            THEN Popped(list.head, next,
                        [taken EXCEPT ![next.v].prev = NoneV],
                        list.len, list.nodes[t].val, build)
            ELSE Popped(list.head, NoneV, taken,
                        list.len, list.nodes[t].val, build)

\* LinkedList::back
LinkedList_back(list) ==
    IF list.head = NoneV THEN NoneV ELSE SomeV(list.nodes[list.head.v].val)

\* LinkedList::front
LinkedList_front(list) ==
    IF list.tail = NoneV THEN NoneV ELSE SomeV(list.nodes[list.tail.v].val)

\* IntoIter::next
IntoIter_next(list, build) == LinkedList_pop_front(list, build)

----------------------------------------------------------------------------
(* State *)

VARIABLES
    version,            \* HydratedAggregate.version
    snapshot_version,   \* HydratedAggregate.snapshot_version
    state,              \* HydratedAggregate.state
    last,               \* the last call on the aggregate: arguments, result
                        \* and the aggregate as it was before the call
    succeeded,          \* number of events applied by calls that returned Ok
    observed,           \* per handle: the version it last read, if any
    readAt,             \* per handle: how many calls had been made when it read
    hist,               \* the calls of an optimistic-concurrency session
    probe,              \* inputs and outcome of a Version function under test
    id,                 \* Entity.id of the entity that wraps the aggregate
    copy,               \* a clone of the aggregate, once one was made
    forkedAt,           \* the version the aggregate had when it was cloned
    head,               \* LinkedList.head
    tail,               \* LinkedList.tail
    len,                \* LinkedList.len
    nodes,              \* the Node values allocated so far, by address
    elems,              \* the elements a double-ended queue would hold
    ret,                \* the last call on the list and what it returned
    lock,               \* the thread that holds the Mutex, if any
    pc,                 \* per thread: its position in its closure
    collected,          \* the Vec collected from the list's into_iter()
    data,               \* the i32 inside SyncAndSend.data
    tmp,                \* per thread: the value it loaded for += 1
    iter,               \* per thread: the increment() calls it has completed
    got                 \* the value returned by get() after the joins

entityVars == << id, copy, forkedAt >>

listVars == << head, tail, len, nodes, elems, ret >>

threadVars == << lock, pc >>

counterVars == << data, tmp, iter, got >>

\* The aggregate, its entity and what is recorded about them.
coreVars == << version, snapshot_version, state, last, succeeded,
               observed, readAt, hist, probe, entityVars >>

\* The state of the programs next to the aggregate.
otherVars == << entityVars, listVars, threadVars, collected, counterVars >>

vars == << version, snapshot_version, state, last, succeeded,
           observed, readAt, hist, probe, otherVars >>

aggVars == << version, snapshot_version, state >>

occVars == << observed, readAt, hist >>

\* The two independent handles of the optimistic-concurrency scenario.
Handles == {"h1", "h2"}

\* The aggregate the variables hold.
Self == HydratedAggregate(version, snapshot_version, state)

\* self is overwritten by the aggregate a call leaves behind.
Store(agg) ==
    /\ version' = agg.version
    /\ snapshot_version' = agg.snapshot_version
    /\ state' = agg.state

Call(op, events, expected, arg, res) ==
    [op |-> op, events |-> events, expected |-> expected, arg |-> arg,
     pre |-> Self, res |-> res]

\* Batches handed to apply_events.
Batches == UNION {[1..n -> Events] : n \in 0..MaxBatch}

\* Versions handed to set_snapshot_version.
SnapshotInputs == {Version_new(0), Version_new(1), Version_new(U64_MAX)}

NoCall == Call("new", << >>, NoneV, NoneV, Ok)

NoProbe == [op |-> "none", self |-> Initial, previous |-> Initial, out |-> NoneV]

InitOcc ==
    /\ observed = [h \in Handles |-> NoneV]
    /\ readAt = [h \in Handles |-> 0]
    /\ hist = << >>

\* LinkedList::new(): no call made on the list yet.
NoListCall ==
    [op |-> "new", arg |-> NoneV, out |-> NoneV,
     was |-> [elems |-> << >>, len |-> 0]]

\* The aggregate is not wrapped in an entity and has not been cloned.
NoEntity ==
    /\ id = NoneV
    /\ copy = NoneV
    /\ forkedAt = NoneV

\* LinkedList::new()
NewList ==
    /\ head = LinkedList_new.head
    /\ tail = LinkedList_new.tail
    /\ len = LinkedList_new.len
    /\ nodes = LinkedList_new.nodes
    /\ elems = << >>
    /\ ret = NoListCall

\* No thread was spawned and nothing was collected.
NoThreads ==
    /\ lock = NoneV
    /\ pc = << >>
    /\ collected = << >>

\* SyncAndSend::new(0), shared with no thread yet.
NewCounter ==
    /\ data = 0
    /\ tmp = << >>
    /\ iter = << >>
    /\ got = NoneV

InitOther ==
    /\ NoEntity
    /\ NewList
    /\ NoThreads
    /\ NewCounter

\* A fresh aggregate, HydratedAggregate::default().
Init ==
    /\ version = HydratedAggregate_default.version
    /\ snapshot_version = HydratedAggregate_default.snapshot_version
    /\ state = HydratedAggregate_default.state
    /\ last = [NoCall EXCEPT !.pre = HydratedAggregate_default]
    /\ succeeded = 0
    /\ InitOcc
    /\ probe = NoProbe
    /\ InitOther

----------------------------------------------------------------------------
(* The owner of the aggregate calls its operations *)

Apply(event) ==
    /\ Len(state) < MaxLog
    /\ LET r == HydratedAggregate_apply(Self, event) IN
       /\ Store(r.agg)
       /\ last' = Call("apply", << event >>, NoneV, NoneV, r.res)
       /\ succeeded' = succeeded + (IF r.res = Ok THEN 1 ELSE 0)
    /\ UNCHANGED << occVars, probe, otherVars >>

ApplyEvents(events) ==
    /\ Len(state) + Len(events) <= MaxLog
    /\ LET r == HydratedAggregate_apply_events(Self, events) IN
       /\ Store(r.agg)
       /\ last' = Call("apply_events", events, NoneV, NoneV, r.res)
       /\ succeeded' = succeeded + r.done
    /\ UNCHANGED << occVars, probe, otherVars >>

ApplyWithConcurrencyCheck(event, expected_version) ==
    /\ Len(state) < MaxLog
    /\ LET r == HydratedAggregate_apply_with_concurrency_check(
                    Self, event, expected_version) IN
       /\ Store(r.agg)
       /\ last' = Call("apply_with_concurrency_check", << event >>,
                       SomeV(expected_version), NoneV, r.res)
       /\ succeeded' = succeeded + (IF r.res = Ok THEN 1 ELSE 0)
    /\ UNCHANGED << occVars, probe, otherVars >>

SetSnapshotVersion(new_snapshot_version) ==
    /\ Store(HydratedAggregate_set_snapshot_version(Self, new_snapshot_version))
    /\ last' = Call("set_snapshot_version", << >>, NoneV,
                    SomeV(new_snapshot_version), Ok)
    /\ UNCHANGED << succeeded, occVars, probe, otherVars >>

Next ==
    \/ \E e \in Events : Apply(e)
    \/ \E es \in Batches : ApplyEvents(es)
    \/ \E e \in Events, v \in Versions : ApplyWithConcurrencyCheck(e, v)
    \/ \E v \in SnapshotInputs : SetSnapshotVersion(v)

Spec == Init /\ [][Next]_vars

----------------------------------------------------------------------------
(* Construction: the aggregate is built by HydratedAggregate::default() or  *)
(* by HydratedAggregate::new(state), and its owner then calls its           *)
(* operations                                                                *)

\* States handed to HydratedAggregate::new.
GivenStates == { << >>, << "Increment" >>, << "UserCreated", "Increment" >> }

Constructions ==
    {[op |-> "HydratedAggregate::default", arg |-> NoneV,
      agg |-> HydratedAggregate_default]}
    \cup {[op |-> "HydratedAggregate::new", arg |-> SomeV(s),
           agg |-> HydratedAggregate_new(s)] : s \in GivenStates}

InitConstructed ==
    /\ \E c \in Constructions :
          /\ version = c.agg.version
          /\ snapshot_version = c.agg.snapshot_version
          /\ state = c.agg.state
          /\ last = [NoCall EXCEPT !.op = c.op, !.arg = c.arg, !.pre = c.agg]
    /\ succeeded = 0
    /\ InitOcc
    /\ probe = NoProbe
    /\ InitOther

SpecConstructed == InitConstructed /\ [][Next]_vars

----------------------------------------------------------------------------
(* Optimistic concurrency: handles read the version of one aggregate and    *)
(* later present it to apply_with_concurrency_check                          *)

\* The aggregate a store hands out after replaying k events with apply_events.
Replay(k) ==
    HydratedAggregate_apply_events(HydratedAggregate_default,
                                   [i \in 1..k |-> "Increment"]).agg

InitSession ==
    /\ \E k \in 0..U64_MAX :
          /\ version = Replay(k).version
          /\ snapshot_version = Replay(k).snapshot_version
          /\ state = Replay(k).state
          /\ last = [NoCall EXCEPT !.pre = Replay(k)]
          /\ succeeded = k
    /\ InitOcc
    /\ probe = NoProbe
    /\ InitOther

Record(caller, op, event, expected, at, r) ==
    [caller |-> caller, op |-> op, event |-> event, expected |-> expected,
     readAt |-> at, pre |-> Self, post |-> r.agg, res |-> r.res]

\* Step (1) of the caller's protocol: the handle reads version().
ReadVersion(h) ==
    /\ observed' = [observed EXCEPT ![h] = SomeV(version)]
    /\ readAt' = [readAt EXCEPT ![h] = Len(hist)]
    /\ UNCHANGED << aggVars, last, succeeded, hist, probe, otherVars >>

\* Step (3): the handle presents the version it read.  It keeps that version,
\* so a second call without a new read presents the same, possibly stale, one.
CheckedWrite(h, event) ==
    /\ observed[h].tag = "Some"
    /\ Len(hist) < MaxCalls
    /\ LET r == HydratedAggregate_apply_with_concurrency_check(
                    Self, event, observed[h].v) IN
       /\ Store(r.agg)
       /\ hist' = Append(hist, Record(h, "apply_with_concurrency_check", event,
                                      observed[h], readAt[h], r))
    /\ UNCHANGED << last, succeeded, observed, readAt, probe, otherVars >>

\* Somebody else applies an event without any check.
DirectApply(event) ==
    /\ Len(hist) < MaxCalls
    /\ LET r == HydratedAggregate_apply(Self, event) IN
       /\ Store(r.agg)
       /\ hist' = Append(hist, Record("owner", "apply", event, NoneV, Len(hist), r))
    /\ UNCHANGED << last, succeeded, observed, readAt, probe, otherVars >>

NextSession ==
    \/ \E h \in Handles : ReadVersion(h)
    \/ \E h \in Handles, e \in Events : CheckedWrite(h, e)
    \/ \E e \in Events : DirectApply(e)

SpecSession == InitSession /\ [][NextSession]_vars

----------------------------------------------------------------------------
(* The functions of Version on their own: the inputs are drawn at the start *)
(* and a step applies the function under test to them                        *)

InitVersion ==
    /\ version = HydratedAggregate_default.version
    /\ snapshot_version = HydratedAggregate_default.snapshot_version
    /\ state = HydratedAggregate_default.state
    /\ last = [NoCall EXCEPT !.pre = HydratedAggregate_default]
    /\ succeeded = 0
    /\ InitOcc
    /\ probe \in [op : {"none"}, self : Versions, previous : Versions,
                  out : {NoneV}]
    /\ InitOther

\* self.validate_sequence(previous), in either build profile.
ValidateSequence(build) ==
    /\ probe.op = "none"
    /\ probe' = [probe EXCEPT
                    !.op = "validate_sequence",
                    !.out = SomeV(Version_validate_sequence(
                                      probe.self, probe.previous, build))]
    /\ UNCHANGED << aggVars, last, succeeded, occVars, otherVars >>

\* self.incr() on a Version.
VersionIncr ==
    /\ probe.op = "none"
    /\ probe' = [probe EXCEPT !.op = "Version::incr",
                              !.out = SomeV(Version_incr(probe.self))]
    /\ UNCHANGED << aggVars, last, succeeded, occVars, otherVars >>

\* en.incr() on the EventNumber inside a Version::Number.
EventNumberIncr ==
    /\ probe.op = "none"
    /\ probe.self.tag = "Number"
    /\ probe' = [probe EXCEPT !.op = "EventNumber::incr",
                              !.out = SomeV(EventNumber_incr(probe.self.n))]
    /\ UNCHANGED << aggVars, last, succeeded, occVars, otherVars >>

\* self.cmp(&previous), previous.cmp(&self) and self == previous.
Compare ==
    /\ probe.op = "none"
    /\ probe' = [probe EXCEPT
                    !.op = "cmp",
                    !.out = SomeV([cmp |-> Version_cmp(probe.self, probe.previous),
                                   rev |-> Version_cmp(probe.previous, probe.self),
                                   eq |-> Version_eq(probe.self, probe.previous)])]
    /\ UNCHANGED << aggVars, last, succeeded, occVars, otherVars >>

NextVersionFn ==
    \/ \E build \in Builds : ValidateSequence(build)
    \/ VersionIncr
    \/ EventNumberIncr
    \/ Compare

SpecVersion == InitVersion /\ [][NextVersionFn]_vars

----------------------------------------------------------------------------
(* A Version value of its own (probe.self), built by Version::new and       *)
(* advanced in place by Version::incr and EventNumber::incr, next to an     *)
(* aggregate whose version is advanced by the apply family.  probe.out      *)
(* remembers the argument of the last Version::new and the number of        *)
(* increments that have succeeded since.                                    *)

\* The version does not depend on which event is applied: one label is enough.
NumberEvents == {"Increment"}

NumberBatches == UNION {[1..n -> NumberEvents] : n \in 0..MaxBatch}

Counted(number, incrs) == SomeV([number |-> number, incrs |-> incrs])

\* Version::default() and HydratedAggregate::default().
InitNumber ==
    /\ version = HydratedAggregate_default.version
    /\ snapshot_version = HydratedAggregate_default.snapshot_version
    /\ state = HydratedAggregate_default.state
    /\ last = [NoCall EXCEPT !.pre = HydratedAggregate_default]
    /\ succeeded = 0
    /\ InitOcc
    /\ probe = [op |-> "none", self |-> Initial, previous |-> Initial,
                out |-> Counted(0, 0)]
    /\ InitOther

\* v = Version::new(number)
NumberNew(number) ==
    /\ probe' = [op |-> "Version::new", self |-> Version_new(number),
                 previous |-> probe.self, out |-> Counted(number, 0)]
    /\ UNCHANGED << aggVars, last, succeeded, occVars, otherVars >>

\* v.incr()
NumberIncr ==
    /\ probe.out.v.incrs < MaxLog
    /\ LET r == Version_incr(probe.self) IN
       probe' = [op |-> "Version::incr", self |-> r.self,
                 previous |-> probe.self,
                 out |-> Counted(probe.out.v.number,
                                 probe.out.v.incrs + (IF r.res = Ok THEN 1 ELSE 0))]
    /\ UNCHANGED << aggVars, last, succeeded, occVars, otherVars >>

\* en.incr() on the EventNumber inside v, as the Number arm of Version::incr
\* reaches it.
NumberEventNumberIncr ==
    /\ probe.out.v.incrs < MaxLog
    /\ probe.self.tag = "Number"
    /\ LET r == EventNumber_incr(probe.self.n) IN
       probe' = [op |-> "EventNumber::incr", self |-> Number(r.self),
                 previous |-> probe.self,
                 out |-> Counted(probe.out.v.number,
                                 probe.out.v.incrs + (IF r.res = Ok THEN 1 ELSE 0))]
    /\ UNCHANGED << aggVars, last, succeeded, occVars, otherVars >>

NextNumber ==
    \/ \E n \in 0..U64_MAX : NumberNew(n)
    \/ NumberIncr
    \/ NumberEventNumberIncr
    \/ \E e \in NumberEvents : Apply(e)
    \/ \E es \in NumberBatches : ApplyEvents(es)
    \/ \E e \in NumberEvents, v \in Versions : ApplyWithConcurrencyCheck(e, v)

SpecNumber == InitNumber /\ [][NextNumber]_vars

----------------------------------------------------------------------------
(* An entity wraps the aggregate: its owner calls Entity::apply_event, and  *)
(* the operations of the aggregate through aggregate_mut()                  *)

\* Identifiers of entities.
Ids == {"user-1", "user-2"}

\* The entity the variables hold.
SelfEntity == Entity(id.v, Self)

\* Entity::default() with one of the identifiers for I::default().
InitEntity ==
    /\ version = HydratedAggregate_default.version
    /\ snapshot_version = HydratedAggregate_default.snapshot_version
    /\ state = HydratedAggregate_default.state
    /\ last = [NoCall EXCEPT !.pre = HydratedAggregate_default]
    /\ succeeded = 0
    /\ InitOcc
    /\ probe = NoProbe
    /\ id \in {SomeV(i) : i \in Ids}
    /\ copy = NoneV
    /\ forkedAt = NoneV
    /\ NewList
    /\ NoThreads
    /\ NewCounter

EntityApplyEvent(event) ==
    /\ Len(state) < MaxLog
    /\ LET r == Entity_apply_event(SelfEntity, event) IN
       /\ Store(r.entity.aggregate)
       /\ id' = SomeV(r.entity.id)
       /\ last' = Call("Entity::apply_event", << event >>, NoneV, NoneV, r.res)
       /\ succeeded' = succeeded + (IF r.res = Ok THEN 1 ELSE 0)
    /\ UNCHANGED << occVars, probe, copy, forkedAt, listVars, threadVars,
                    collected, counterVars >>

\* *entity.aggregate_mut().state_mut() = new_state
StateMut(new_state) ==
    /\ Store(HydratedAggregate_state_mut(Self, new_state))
    /\ last' = Call("state_mut", << >>, NoneV, SomeV(new_state), Ok)
    /\ UNCHANGED << succeeded, occVars, probe, otherVars >>

NextEntity ==
    \/ \E e \in NumberEvents : EntityApplyEvent(e)
    \/ \E e \in NumberEvents : Apply(e)
    \/ \E es \in NumberBatches : ApplyEvents(es)
    \/ \E e \in NumberEvents, v \in Versions : ApplyWithConcurrencyCheck(e, v)
    \/ \E v \in SnapshotInputs : SetSnapshotVersion(v)
    \/ \E s \in GivenStates : StateMut(s)

SpecEntity == InitEntity /\ [][NextEntity]_vars

----------------------------------------------------------------------------
(* An aggregate is cloned, and the owner of each of the two copies calls    *)
(* operations on its own copy                                                *)

Copies == {"original", "copy"}

\* The calls an owner makes on its copy; v is the version at the clone.
CopyCalls(v) ==
    [op : {"apply"}, event : Events, expected : {NoneV}, arg : {NoneV}]
    \cup [op : {"apply_with_concurrency_check"}, event : Events,
          expected : {SomeV(v)}, arg : {NoneV}]
    \cup [op : {"set_snapshot_version"}, event : {"Increment"},
          expected : {NoneV}, arg : {SomeV(s) : s \in SnapshotInputs}]

\* The call c on the aggregate agg.
Perform(agg, c) ==
    CASE c.op = "apply" -> HydratedAggregate_apply(agg, c.event)
      [] c.op = "apply_with_concurrency_check" ->
            HydratedAggregate_apply_with_concurrency_check(
                agg, c.event, c.expected.v)
      [] c.op = "set_snapshot_version" ->
            [agg |-> HydratedAggregate_set_snapshot_version(agg, c.arg.v),
             res |-> Ok]

CopyRecord(caller, c, pre, r) ==
    [caller |-> caller, op |-> c.op, event |-> c.event,
     expected |-> c.expected, readAt |-> 0, pre |-> pre, post |-> r.agg,
     res |-> r.res]

\* The aggregate a store hands out after replaying k events.
InitClone ==
    /\ \E k \in 0..U64_MAX :
          /\ version = Replay(k).version
          /\ snapshot_version = Replay(k).snapshot_version
          /\ state = Replay(k).state
          /\ last = [NoCall EXCEPT !.pre = Replay(k)]
          /\ succeeded = k
    /\ InitOcc
    /\ probe = NoProbe
    /\ InitOther

\* copy = aggregate.clone()
Clone ==
    /\ copy = NoneV
    /\ copy' = SomeV(HydratedAggregate_clone(Self))
    /\ forkedAt' = SomeV(version)
    /\ UNCHANGED << aggVars, last, succeeded, occVars, probe, id, listVars,
                    threadVars, collected, counterVars >>

\* The owner of the original calls an operation on it.
CallOriginal(c) ==
    /\ copy # NoneV
    /\ Len(hist) < MaxCalls
    /\ LET r == Perform(Self, c) IN
       /\ Store(r.agg)
       /\ hist' = Append(hist, CopyRecord("original", c, Self, r))
    /\ UNCHANGED << last, succeeded, observed, readAt, probe, otherVars >>

\* The owner of the clone calls an operation on it.
CallCopy(c) ==
    /\ copy # NoneV
    /\ Len(hist) < MaxCalls
    /\ LET r == Perform(copy.v, c) IN
       /\ copy' = SomeV(r.agg)
       /\ hist' = Append(hist, CopyRecord("copy", c, copy.v, r))
    /\ UNCHANGED << aggVars, last, succeeded, observed, readAt, probe, id,
                    forkedAt, listVars, threadVars, collected, counterVars >>

NextClone ==
    \/ Clone
    \/ copy # NoneV /\ \E c \in CopyCalls(forkedAt.v) : CallOriginal(c)
    \/ copy # NoneV /\ \E c \in CopyCalls(forkedAt.v) : CallCopy(c)

SpecClone == InitClone /\ [][NextClone]_vars

----------------------------------------------------------------------------
(* The owner of a LinkedList calls its operations.  elems is what a         *)
(* double-ended queue holds after the same calls.                           *)

\* Values pushed to the list.
ListValues == {10, 20}

\* The list the variables hold.
SelfList == LinkedList(head, tail, len, nodes)

StoreList(list) ==
    /\ head' = list.head
    /\ tail' = list.tail
    /\ len' = list.len
    /\ nodes' = list.nodes

ListCall(op, arg, out) ==
    [op |-> op, arg |-> arg, out |-> out,
     was |-> [elems |-> elems, len |-> len]]

\* A panic ends the thread that owns the list.
Running == ret.out # Panic

\* list.push_back(val)
PushBackCall(val) ==
    /\ Running
    /\ Len(nodes) < MaxNodes
    /\ StoreList(LinkedList_push_back(SelfList, val))
    /\ elems' = Append(elems, val)
    /\ ret' = ListCall("push_back", SomeV(val), NoneV)

\* list.push_front(val)
PushFrontCall(val) ==
    /\ Running
    /\ Len(nodes) < MaxNodes
    /\ StoreList(LinkedList_push_front(SelfList, val))
    /\ elems' = << val >> \o elems
    /\ ret' = ListCall("push_front", SomeV(val), NoneV)

\* list.pop_back()
PopBackCall(build) ==
    /\ Running
    /\ LET r == LinkedList_pop_back(SelfList, build) IN
       /\ StoreList(r.list)
       /\ ret' = ListCall("pop_back", NoneV, r.out)
    /\ elems' = IF elems = << >> THEN elems
                ELSE SubSeq(elems, 1, Len(elems) - 1)

\* list.pop_front()
PopFrontCall(build) ==
    /\ Running
    /\ LET r == LinkedList_pop_front(SelfList, build) IN
       /\ StoreList(r.list)
       /\ ret' = ListCall("pop_front", NoneV, r.out)
    /\ elems' = IF elems = << >> THEN elems ELSE Tail(elems)

\* let mut list = LinkedList::new()
InitList ==
    /\ Init
    /\ NewList

PushBack(val) ==
    /\ PushBackCall(val)
    /\ UNCHANGED << coreVars, threadVars, collected, counterVars >>

PushFront(val) ==
    /\ PushFrontCall(val)
    /\ UNCHANGED << coreVars, threadVars, collected, counterVars >>

PopBack(build) ==
    /\ PopBackCall(build)
    /\ UNCHANGED << coreVars, threadVars, collected, counterVars >>

PopFront(build) ==
    /\ PopFrontCall(build)
    /\ UNCHANGED << coreVars, threadVars, collected, counterVars >>

NextList ==
    \/ \E val \in ListValues : PushBack(val)
    \/ \E val \in ListValues : PushFront(val)
    \/ \E build \in Builds : PopBack(build)
    \/ \E build \in Builds : PopFront(build)

SpecList == InitList /\ [][NextList]_vars

----------------------------------------------------------------------------
(* ConcurrentList: ListThreads scoped threads each lock the shared list and *)
(* push their index; after the scope the main thread unwraps the list and   *)
(* collects its into_iter()                                                  *)

\* for i in 0..8
ListThreadIds == 0 .. (ListThreads - 1)

\* Mutant: a lock that lets a thread in while another holds the guard.
Mut_Mutex_never_excludes(holder) == TRUE

\* Mutex::lock returns once no thread holds the guard.
Mutex_free(holder) == holder = NoneV

\* Arc::new(Mutex::new(LinkedList::new())) and the threads just spawned.
InitConcurrentList ==
    /\ version = HydratedAggregate_default.version
    /\ snapshot_version = HydratedAggregate_default.snapshot_version
    /\ state = HydratedAggregate_default.state
    /\ last = [NoCall EXCEPT !.pre = HydratedAggregate_default]
    /\ succeeded = 0
    /\ InitOcc
    /\ probe = NoProbe
    /\ NoEntity
    /\ NewList
    /\ lock = NoneV
    /\ pc = [t \in ListThreadIds |-> "spawned"]
    /\ collected = << >>
    /\ NewCounter

\* list.lock().unwrap()
ListLock(t) ==
    /\ pc[t] = "spawned"
    /\ Mutex_free(lock)
    /\ lock' = SomeV(t)
    /\ pc' = [pc EXCEPT ![t] = "locked"]
    /\ UNCHANGED << coreVars, listVars, collected, counterVars >>

\* .push_back(i) through the guard
ListLockedPushBack(t) ==
    /\ pc[t] = "locked"
    /\ PushBackCall(t)
    /\ pc' = [pc EXCEPT ![t] = "pushed"]
    /\ UNCHANGED << coreVars, lock, collected, counterVars >>

\* The guard is dropped at the end of the statement and the closure returns.
ListUnlock(t) ==
    /\ pc[t] = "pushed"
    /\ lock' = NoneV
    /\ pc' = [pc EXCEPT ![t] = "done"]
    /\ UNCHANGED << coreVars, listVars, collected, counterVars >>

\* thread::scope has returned: every spawned thread was joined.
ScopeEnded == \A t \in ListThreadIds : pc[t] = "done"

\* The iterator has returned None: collect() is complete.
CollectEnded == ret.op = "next" /\ ret.out = NoneV

\* One IntoIter::next() of .into_iter().collect::<Vec<_>>()
CollectNext(build) ==
    /\ ScopeEnded
    /\ Running
    /\ ~CollectEnded
    /\ LET r == IntoIter_next(SelfList, build) IN
       /\ StoreList(r.list)
       /\ ret' = ListCall("next", NoneV, r.out)
       /\ collected' = IF r.out.tag = "Some"
                       THEN Append(collected, r.out.v) ELSE collected
    /\ elems' = IF elems = << >> THEN elems ELSE Tail(elems)
    /\ UNCHANGED << coreVars, threadVars, counterVars >>

NextConcurrentList ==
    \/ \E t \in ListThreadIds : ListLock(t)
    \/ \E t \in ListThreadIds : ListLockedPushBack(t)
    \/ \E t \in ListThreadIds : ListUnlock(t)
    \/ \E build \in Builds : CollectNext(build)

SpecConcurrentList == InitConcurrentList /\ [][NextConcurrentList]_vars

----------------------------------------------------------------------------
(* SyncAndSend of src/1_concepts/1_8_thread_safety/src/main.rs: threads     *)
(* that own clones of one SyncAndSend call increment() in a loop, the main  *)
(* thread joins them and calls get()                                         *)

CounterThreadIds == 1 .. CounterThreads

\* *guard += 1 on the i32 behind the guard
i32_add_assign(x) == x + 1

\* SyncAndSend::new(0) and the threads just spawned with their clones.
InitCounter ==
    /\ version = HydratedAggregate_default.version
    /\ snapshot_version = HydratedAggregate_default.snapshot_version
    /\ state = HydratedAggregate_default.state
    /\ last = [NoCall EXCEPT !.pre = HydratedAggregate_default]
    /\ succeeded = 0
    /\ InitOcc
    /\ probe = NoProbe
    /\ NoEntity
    /\ NewList
    /\ lock = NoneV
    /\ pc = [t \in CounterThreadIds |-> "idle"]
    /\ collected = << >>
    /\ data = 0
    /\ tmp = [t \in CounterThreadIds |-> 0]
    /\ iter = [t \in CounterThreadIds |-> 0]
    /\ got = NoneV

\* increment(): self.data.lock().unwrap()
CounterLock(t) ==
    /\ pc[t] = "idle"
    /\ Mutex_free(lock)
    /\ lock' = SomeV(t)
    /\ pc' = [pc EXCEPT ![t] = "locked"]
    /\ UNCHANGED << coreVars, listVars, collected, counterVars >>

\* increment(): += 1 reads the value behind the guard
CounterLoad(t) ==
    /\ pc[t] = "locked"
    /\ tmp' = [tmp EXCEPT ![t] = data]
    /\ pc' = [pc EXCEPT ![t] = "loaded"]
    /\ UNCHANGED << coreVars, listVars, lock, collected, data, iter, got >>

\* increment(): += 1 writes the sum back
CounterStore(t) ==
    /\ pc[t] = "loaded"
    /\ data' = i32_add_assign(tmp[t])
    /\ pc' = [pc EXCEPT ![t] = "stored"]
    /\ UNCHANGED << coreVars, listVars, lock, collected, tmp, iter, got >>

\* increment(): the guard is dropped and the call returns; after the last
\* iteration of for _ in 0..100 the closure returns.
CounterUnlock(t) ==
    /\ pc[t] = "stored"
    /\ lock' = NoneV
    /\ iter' = [iter EXCEPT ![t] = @ + 1]
    /\ pc' = [pc EXCEPT ![t] = IF iter[t] + 1 = Increments
                                THEN "returned" ELSE "idle"]
    /\ UNCHANGED << coreVars, listVars, collected, data, tmp, got >>

\* Every handle.join() has returned.
Joined == \A t \in CounterThreadIds : pc[t] = "returned"

\* shared.get()
CounterGet ==
    /\ Joined
    /\ got = NoneV
    /\ Mutex_free(lock)
    /\ got' = SomeV(data)
    /\ UNCHANGED << coreVars, listVars, threadVars, collected, data, tmp, iter >>

NextCounter ==
    \/ \E t \in CounterThreadIds : CounterLock(t)
    \/ \E t \in CounterThreadIds : CounterLoad(t)
    \/ \E t \in CounterThreadIds : CounterStore(t)
    \/ \E t \in CounterThreadIds : CounterUnlock(t)
    \/ CounterGet

SpecCounter == InitCounter /\ [][NextCounter]_vars

----------------------------------------------------------------------------
(* Properties of the single-owner operations, checked under Spec *)

\* A version as the number of events it stands for: Initial is 0.
VersionNum(v) == IF v.tag = "Initial" THEN 0 ELSE v.n

LastIs(op) == last.op = op

\* C1: apply_with_concurrency_check(event, expected) called while
\* version() # expected returns VersionMismatch{expected, actual: the current
\* version} and leaves state, version and snapshot_version as they were.
C1_MismatchRejectsUntouched ==
    (LastIs("apply_with_concurrency_check") /\ last.pre.version # last.expected.v)
    => /\ last.res = VersionMismatch(last.expected.v, last.pre.version)
       /\ Self = last.pre

\* A stale check on an aggregate that already holds events and a snapshot mark.
C1_Witness ==
    /\ LastIs("apply_with_concurrency_check")
    /\ last.pre.version # last.expected.v
    /\ last.res.tag = "VersionMismatch"
    /\ Len(last.pre.state) >= 2
    /\ last.pre.snapshot_version # NoneV

\* C5: whenever apply_with_concurrency_check returns an error of any kind,
\* state, version and snapshot_version are identical to their values before
\* the call.
C5_NoMutationOnAnyError ==
    (LastIs("apply_with_concurrency_check") /\ last.res # Ok)
    => Self = last.pre

\* C6: in every state reachable from a fresh aggregate by apply, apply_events
\* and apply_with_concurrency_check, the version (Initial read as 0) equals the
\* number of events folded into state.
C6_VersionCountsFoldedEvents == VersionNum(version) = Len(state)

\* C7: apply(event) at Number(u64::MAX) returns VersionOverflow with the version
\* still Number(u64::MAX), while state already carries the event's effect.
C7_OverflowKeepsStateMutation ==
    (LastIs("apply") /\ last.pre.version = Number(U64_MAX))
    => /\ last.res = VersionOverflow
       /\ version = Number(U64_MAX)
       /\ state = last.pre.state \o last.events
       /\ state # last.pre.state

\* apply was called on an aggregate at the largest version.
C7_Witness ==
    /\ LastIs("apply")
    /\ last.pre.version = Number(U64_MAX)
    /\ last.res = VersionOverflow
    /\ Len(state) = U64_MAX + 1

\* C8: after n events were applied successfully, by any mix of apply,
\* apply_events and apply_with_concurrency_check on a fresh aggregate,
\* version() is Number(n), Number(0) being Initial.
C8_VersionIsSuccessCount ==
    IF succeeded = 0 THEN version = Initial ELSE version = Number(succeeded)

\* Some events were applied, the last ones by a successful batch.
C8_Witness ==
    /\ LastIs("apply_events")
    /\ last.res = Ok
    /\ Len(last.events) = MaxBatch
    /\ succeeded >= 3

\* C9: a successful apply(event) commits the event's effect to state and
\* advances the version by exactly one: Initial to Number(1), Number(n) to
\* Number(n+1).
C9_ApplyCommitsAndAdvancesByOne ==
    (LastIs("apply") /\ last.res = Ok)
    => /\ state = Append(last.pre.state, last.events[1])
       /\ \/ last.pre.version = Initial /\ version = Number(1)
          \/ /\ last.pre.version.tag = "Number"
             /\ version = Number(last.pre.version.n + 1)

\* A successful apply from a Number version, on a state that holds events.
C9_Witness ==
    /\ LastIs("apply")
    /\ last.res = Ok
    /\ last.pre.version.tag = "Number"
    /\ Len(state) >= 2

\* C14: an apply_events(events) that returns success has advanced the version
\* by exactly the number of events supplied; an empty sequence leaves version
\* and state unchanged.
C14_BatchAdvancesByItsLength ==
    (LastIs("apply_events") /\ last.res = Ok)
    => /\ VersionNum(version) = VersionNum(last.pre.version) + Len(last.events)
       /\ last.events = << >> => Self = last.pre

\* A full batch succeeded on an aggregate that already held events.
C14_Witness ==
    /\ LastIs("apply_events")
    /\ last.res = Ok
    /\ Len(last.events) = MaxBatch
    /\ last.pre.version.tag = "Number"

\* The aggregate after apply was called on each of the first n events, one
\* call after another.
RECURSIVE ApplyInOrder(_, _, _)
ApplyInOrder(agg, events, n) ==
    IF n = 0
    THEN agg
    ELSE HydratedAggregate_apply(ApplyInOrder(agg, events, n - 1), events[n]).agg

\* The calls of apply a caller makes for the batch when it stops at the first
\* error: one per event up to the event that finds the version at its maximum.
CallsMade(agg, events) ==
    LET room == U64_MAX - VersionNum(agg.version) IN
    IF Len(events) <= room THEN Len(events) ELSE room + 1

\* The spec's example projection: a counter that "Increment" increments and
\* the other event sets to 1.
RECURSIVE ExampleCounter(_)
ExampleCounter(log) ==
    IF log = << >>
    THEN 0
    ELSE IF log[Len(log)] = "Increment"
         THEN ExampleCounter(SubSeq(log, 1, Len(log) - 1)) + 1
         ELSE 1

C16_BatchStopsAtFirstError ==
    (LastIs("apply_events") /\ last.res # Ok)
    => LET k == CallsMade(last.pre, last.events) IN
       /\ last.res = VersionOverflow
       /\ state = last.pre.state \o SubSeq(last.events, 1, k)
       /\ VersionNum(version) = VersionNum(last.pre.version) + (k - 1)

\* The second of three events failed: one event was applied before it and one
\* was left out.
C16_Witness ==
    /\ LastIs("apply_events")
    /\ last.res = VersionOverflow
    /\ Len(last.events) = 3
    /\ VersionNum(last.pre.version) = U64_MAX - 1
    /\ Len(state) = Len(last.pre.state) + 2

\* C20: set_snapshot_version(v) makes snapshot_version() Some(v), for any v,
\* and leaves version and state unchanged.
C20_SetSnapshotVersionFrame ==
    LastIs("set_snapshot_version")
    => /\ snapshot_version = SomeV(last.arg.v)
       /\ version = last.pre.version
       /\ state = last.pre.state

\* A snapshot mark was replaced by a different one on an aggregate whose
\* version is neither of them.
C20_Witness ==
    /\ LastIs("set_snapshot_version")
    /\ last.pre.snapshot_version.tag = "Some"
    /\ last.pre.snapshot_version # snapshot_version
    /\ version # last.arg.v
    /\ Len(state) >= 2

\* C17: a fresh aggregate, built by HydratedAggregate::new(state) or by
\* HydratedAggregate::default(), has version() Initial and snapshot_version()
\* None, and its state is the given state, respectively A::default().
\* Checked under SpecConstructed.
C17_FreshAggregate ==
    /\ LastIs("HydratedAggregate::new")
       => /\ version = Initial
          /\ snapshot_version = NoneV
          /\ state = last.arg.v
    /\ LastIs("HydratedAggregate::default")
       => /\ version = Initial
          /\ snapshot_version = NoneV
          /\ state = << >>

\* An aggregate was just built from a state that is not the default one.
C17_Witness ==
    /\ LastIs("HydratedAggregate::new")
    /\ Len(last.arg.v) = 2
    /\ version = Initial

----------------------------------------------------------------------------
(* Properties of the optimistic-concurrency session, checked under          *)
(* SpecSession                                                              *)

\* The version after v: Number(n+1), Number(1) after Initial.
NextVersion(v) == Number(VersionNum(v) + 1)

IsChecked(c) == c.op = "apply_with_concurrency_check"

\* The call changed the aggregate: an event reached its state or its version
\* moved.
Modified(c) == c.post.state # c.pre.state \/ c.post.version # c.pre.version

\* Calls i and i+1 are made by the same handle with the version it read once,
\* and that version is the actual one when the first call is made.
RetryAt(i) ==
    /\ IsChecked(hist[i]) /\ IsChecked(hist[i + 1])
    /\ hist[i].caller = hist[i + 1].caller
    /\ hist[i].readAt = hist[i + 1].readAt
    /\ hist[i].pre.version = hist[i].expected.v

\* The first call succeeds and advances the version by one; the second, stale
\* one is rejected and leaves state and version as the first call left them.
FirstWinsSecondRejected(i) ==
    LET a == hist[i]
        b == hist[i + 1]
        v == a.expected.v
    IN /\ a.res = Ok
       /\ a.post.version = NextVersion(v)
       /\ b.res = VersionMismatch(v, NextVersion(v))
       /\ b.post.state = a.post.state
       /\ b.post.version = a.post.version

\* C2 as stated: for every version v, apply_with_concurrency_check(event, v)
\* on an aggregate at version v succeeds and advances the version by one, and
\* the same call made again with the stale v fails with
\* VersionMismatch{expected: v, actual: v+1}, leaving state and version as
\* they were after the first call.
C2_Original_EveryVersion ==
    \A i \in 1..(Len(hist) - 1) : RetryAt(i) => FirstWinsSecondRejected(i)

\* C2 as amended: the same for every version v other than Number(u64::MAX);
\* at Number(u64::MAX) the first call returns VersionOverflow and the version
\* stays Number(u64::MAX).
C2_CheckedApplyThenStaleRetry ==
    \A i \in 1..(Len(hist) - 1) :
        RetryAt(i) =>
            IF hist[i].expected.v # Number(U64_MAX)
            THEN FirstWinsSecondRejected(i)
            ELSE /\ hist[i].res = VersionOverflow
                 /\ hist[i].post.version = Number(U64_MAX)

\* A handle called twice with the version it read from an aggregate that
\* already held events.
C2_Witness ==
    \E i \in 1..(Len(hist) - 1) :
        /\ RetryAt(i)
        /\ hist[i].expected.v.tag = "Number"
        /\ hist[i].expected.v # Number(U64_MAX)
        /\ hist[i + 1].res.tag = "VersionMismatch"

\* Calls i and i+1 are made by two different handles that both read the
\* version the aggregate still has when the first of the two calls is made.
RaceAt(i) ==
    /\ IsChecked(hist[i]) /\ IsChecked(hist[i + 1])
    /\ hist[i].caller # hist[i + 1].caller
    /\ hist[i + 1].readAt < i
    /\ hist[i].expected = hist[i + 1].expected
    /\ hist[i].pre.version = hist[i].expected.v
    /\ \A j \in (hist[i + 1].readAt + 1)..(i - 1) : ~Modified(hist[j])
    /\ \A j \in (hist[i].readAt + 1)..(i - 1) : ~Modified(hist[j])

\* Exactly the first caller wins: its event alone is folded into state, and
\* the other caller is rejected with its event not applied.
OneWinnerAt(i) ==
    LET a == hist[i]
        b == hist[i + 1]
        v == a.expected.v
    IN /\ a.res = Ok
       /\ a.post.version = NextVersion(v)
       /\ a.post.state = Append(a.pre.state, a.event)
       /\ b.res = VersionMismatch(v, NextVersion(v))
       /\ b.post = a.post

\* C3 as stated: when two writers have both read version v and each calls
\* apply_with_concurrency_check(its event, v), then in either order exactly
\* one call succeeds, taking the aggregate to v+1 with only the winner's event
\* folded into state, and the other receives
\* VersionMismatch{expected: v, actual: v+1} with its event not applied.
C3_Original_NoLostUpdate ==
    \A i \in 1..(Len(hist) - 1) : RaceAt(i) => OneWinnerAt(i)

\* C3 as amended: the same for every v other than Number(u64::MAX); at
\* Number(u64::MAX) neither call succeeds, both return VersionOverflow, the
\* version stays Number(u64::MAX) and state carries both events.
C3_NoLostUpdateBelowMax ==
    \A i \in 1..(Len(hist) - 1) :
        RaceAt(i) =>
            IF hist[i].expected.v # Number(U64_MAX)
            THEN OneWinnerAt(i)
            ELSE /\ hist[i].res = VersionOverflow
                 /\ hist[i + 1].res = VersionOverflow
                 /\ hist[i + 1].post.version = Number(U64_MAX)
                 /\ hist[i + 1].post.state =
                        hist[i].pre.state \o << hist[i].event, hist[i + 1].event >>

\* Two handles raced with different events on an aggregate holding events.
C3_Witness ==
    \E i \in 1..(Len(hist) - 1) :
        /\ RaceAt(i)
        /\ hist[i].event # hist[i + 1].event
        /\ hist[i].expected.v.tag = "Number"
        /\ hist[i].expected.v # Number(U64_MAX)
        /\ hist[i + 1].res.tag = "VersionMismatch"

\* C4: a call of apply_with_concurrency_check(event, v) by a caller that read
\* v earlier is rejected with VersionMismatch if and only if the aggregate was
\* modified (an event was applied to it) between the read and the call.
C4_RejectedIffModifiedSinceRead ==
    \A i \in 1..Len(hist) :
        IsChecked(hist[i]) =>
            (hist[i].res.tag = "VersionMismatch"
             <=> \E j \in (hist[i].readAt + 1)..(i - 1) : Modified(hist[j]))

----------------------------------------------------------------------------
(* Properties of the Version functions, checked under SpecVersion *)

\* self is the version that follows previous: Number(1) after Initial,
\* Number(p+1) after Number(p).
IsNextAfter(self, previous) ==
    \/ previous = Initial /\ self = Number(1)
    \/ /\ previous.tag = "Number"
       /\ self.tag = "Number"
       /\ self.n = previous.n + 1

\* C10: validate_sequence(self, previous) succeeds if and only if previous is
\* Initial and self is Number(1), or previous is Number(p) and self is
\* Number(p+1); in every other case it fails with InvalidSequence.
C10_ValidateSequenceIffNext ==
    probe.op = "validate_sequence"
    => IF IsNextAfter(probe.self, probe.previous)
       THEN probe.out = SomeV(Ok)
       ELSE probe.out = SomeV(InvalidSequence)

\* C27: validate_sequence returns Ok or InvalidSequence for every pair of
\* versions and never faults; with previous = Number(u64::MAX) it returns
\* InvalidSequence for every self.
C27_ValidateSequenceNeverFaults ==
    probe.op = "validate_sequence"
    => /\ probe.out \in {SomeV(Ok), SomeV(InvalidSequence)}
       /\ probe.previous = Number(U64_MAX)
          => probe.out = SomeV(InvalidSequence)

\* C11: incrementing at the maximum is a failure, not a wraparound:
\* Version::incr on Number(u64::MAX) and EventNumber::incr on u64::MAX return
\* VersionOverflow and leave the value unchanged, never 0 or Initial.
C11_IncrAtMaxFailsUnchanged ==
    /\ (probe.op = "Version::incr" /\ probe.self = Number(U64_MAX))
       => /\ probe.out.v.res = VersionOverflow
          /\ probe.out.v.self = Number(U64_MAX)
    /\ (probe.op = "EventNumber::incr" /\ probe.self.n = U64_MAX)
       => /\ probe.out.v.res = VersionOverflow
          /\ probe.out.v.self = U64_MAX

\* Version::incr was called on Number(u64::MAX).
C11_Witness ==
    /\ probe.op = "Version::incr"
    /\ probe.self = Number(U64_MAX)
    /\ probe.out.v.res = VersionOverflow

\* C12: Version::incr has exactly two successful transitions, Initial to
\* Number(1) and Number(n) with n < u64::MAX to Number(n+1); no call produces
\* Initial, skips a number or lowers the number.
C12_IncrTransitions ==
    probe.op = "Version::incr"
    => LET old == probe.self
           new == probe.out.v.self
           res == probe.out.v.res
       IN /\ res = Ok <=> old # Number(U64_MAX)
          /\ res = Ok =>
                \/ old = Initial /\ new = Number(1)
                \/ /\ old.tag = "Number" /\ old.n < U64_MAX
                   /\ new = Number(old.n + 1)
          /\ new # Initial
          /\ VersionNum(new) >= VersionNum(old)
          /\ VersionNum(new) <= VersionNum(old) + 1

\* Version::incr succeeded on a Number.
C12_Witness ==
    /\ probe.op = "Version::incr"
    /\ probe.self.tag = "Number"
    /\ probe.out.v.res = Ok
    /\ probe.out.v.self.n >= 3

\* The comparison that is the mirror image of c.
Opposite(c) ==
    IF c = "Less" THEN "Greater" ELSE IF c = "Greater" THEN "Less" ELSE "Equal"

\* C19: versions are totally ordered with Initial < Number(n) for all n >= 1
\* and Number(a) < Number(b) iff a < b; equality is by value, and a successful
\* incr yields a strictly greater version.
C19_VersionOrder ==
    /\ probe.op = "cmp"
       => LET a == probe.self
              b == probe.previous
              c == probe.out.v.cmp
          IN /\ (a = Initial /\ b.tag = "Number") => c = "Less"
             /\ (a.tag = "Number" /\ b.tag = "Number")
                => /\ c = "Less" <=> a.n < b.n
                   /\ c = "Greater" <=> a.n > b.n
             /\ c = "Equal" <=> a = b
             /\ probe.out.v.eq <=> a = b
             /\ probe.out.v.rev = Opposite(c)
             /\ c = "Less" <=> VersionNum(a) < VersionNum(b)
    /\ (probe.op = "Version::incr" /\ probe.out.v.res = Ok)
       => Version_cmp(probe.out.v.self, probe.self) = "Greater"

\* Initial was compared with a Number.
C19_Witness ==
    /\ probe.op = "cmp"
    /\ probe.self = Initial
    /\ probe.previous = Number(U64_MAX)
    /\ probe.out.v.cmp = "Less"

----------------------------------------------------------------------------
(* Properties of the numbers a Version can hold, checked under SpecNumber *)

\* A Number never holds zero.
NonZeroNumber(v) == v.tag = "Number" => v.n >= 1

\* C13: a sequence number is never zero: every Version reachable through
\* Version::new, Version::incr, EventNumber::incr and the apply family that is
\* a Number(n) has n >= 1, also after a failed increment at the maximum.
C13_NumberNeverZero ==
    /\ NonZeroNumber(probe.self)
    /\ NonZeroNumber(version)

\* An increment has just failed at the maximum, on the value built by
\* Version::new(0) and on the aggregate.
C13_Witness ==
    /\ probe.op = "Version::incr"
    /\ probe.previous = Number(U64_MAX)
    /\ probe.self = Number(U64_MAX)
    /\ probe.out.v.number = 0
    /\ last.res = VersionOverflow

\* C18: Version::new(n) is Initial for n = 0 and Number(n) for every other n,
\* and the number of successful increments from Initial maps back to the
\* version they reach: new(k) is the version after k successful increments.
C18_NewMatchesIncrements ==
    /\ probe.op = "Version::new"
       => IF probe.out.v.number = 0
          THEN probe.self = Initial
          ELSE probe.self = Number(probe.out.v.number)
    /\ probe.out.v.number = 0 => Version_new(probe.out.v.incrs) = probe.self
    /\ Version_new(succeeded) = version

\* Several increments have succeeded since Initial.
C18_Witness ==
    /\ probe.op = "Version::incr"
    /\ probe.out.v.number = 0
    /\ probe.out.v.incrs = 3
    /\ succeeded = 2

----------------------------------------------------------------------------
(* Properties of the entity and of the operations of its aggregate, checked *)
(* under SpecEntity                                                          *)

C21_Forwarded ==
    LastIs("Entity::apply_event")
    => LET direct == HydratedAggregate_apply(last.pre, last.events[1]) IN
       /\ last.res = direct.res
       /\ state = direct.agg.state
       /\ version = direct.agg.version
       /\ snapshot_version = direct.agg.snapshot_version

\* C21: Entity::apply_event(event) returns the result that apply(event) gives
\* on the wrapped aggregate and leaves that aggregate with the same state,
\* version and snapshot_version, and no step changes the entity's id.
C21_ApplyEventForwards == [] C21_Forwarded /\ [][id' = id]_vars

\* An event went through the entity and reached the aggregate.
C21_Witness ==
    /\ LastIs("Entity::apply_event")
    /\ last.res = Ok
    /\ version = Number(2)
    /\ Len(state) > Len(last.pre.state)

ApplyOps ==
    {"apply", "apply_events", "apply_with_concurrency_check",
     "Entity::apply_event"}

\* What one step does to the version: it moves by one for every event the
\* step applied successfully, one version at a time, and not otherwise.
VersionStep ==
    LET applied == succeeded' - succeeded IN
    /\ applied >= 0
    /\ VersionNum(version') = VersionNum(version) + applied
    /\ version' = Initial => version = Initial
    /\ version' # version
       => /\ last'.op \in ApplyOps
          /\ last'.op # "apply_events" => applied = 1 /\ last'.res = Ok
          /\ \A k \in 1..applied :
                ApplyInOrder(Self, last'.events, k).version
                    = NextVersion(ApplyInOrder(Self, last'.events, k - 1).version)
          /\ ApplyInOrder(Self, last'.events, applied).version = version'

\* C26: over any sequence of apply, apply_events,
\* apply_with_concurrency_check, set_snapshot_version, writes through
\* state_mut and Entity::apply_event, failed calls included, the version
\* never decreases and never returns to Initial, changes only when an event
\* was applied successfully, and each such event moves it by exactly one.
C26_VersionMonotonic == [][VersionStep]_vars

\* A batch moved the version by one step and was then refused, after the
\* state had been written directly.
C26_Witness ==
    /\ LastIs("apply_events")
    /\ last.res = VersionOverflow
    /\ last.pre.version = Number(U64_MAX - 1)
    /\ version = Number(U64_MAX)
    /\ Len(state) < U64_MAX

SnapshotStep ==
    snapshot_version' # snapshot_version => last'.op = "set_snapshot_version"

\* C29: snapshot_version is None at construction, and only a
\* set_snapshot_version call changes it: apply, apply_events,
\* apply_with_concurrency_check and Entity::apply_event, successful or
\* failed, leave it as it was.
C29_SnapshotVersionFrame ==
    /\ snapshot_version = NoneV
    /\ [][SnapshotStep]_vars
    /\ [](last.op \in ApplyOps => snapshot_version = last.pre.snapshot_version)

\* Events were applied through the entity after the snapshot marker was set,
\* and the last one was refused.
C29_Witness ==
    /\ LastIs("Entity::apply_event")
    /\ last.res = VersionOverflow
    /\ snapshot_version = SomeV(Number(1))

----------------------------------------------------------------------------
(* Properties of the copies of a cloned aggregate, checked under SpecClone *)

\* The checked calls that present the version of the clone to a copy whose
\* version has not moved since.
FirstAttempts ==
    {i \in 1..Len(hist) :
        /\ hist[i].op = "apply_with_concurrency_check"
        /\ hist[i].expected = forkedAt
        /\ hist[i].pre.version = forkedAt.v}

\* A call on one copy leaves the three fields of the other copy alone.
CopiesIndependent ==
    hist' # hist
    => /\ hist'[Len(hist')].caller = "original" => copy' = copy
       /\ hist'[Len(hist')].caller = "copy" => UNCHANGED aggVars

\* The statement of C22 as written: the checked call succeeds on each copy,
\* whatever the version v of the clone.
C22_Original_EachCopySucceeds ==
    \A i \in FirstAttempts : hist[i].res = Ok

C22_Attempts ==
    /\ (copy # NoneV /\ hist = << >>) => copy.v = Self
    /\ \A i \in FirstAttempts :
          /\ forkedAt.v # Number(U64_MAX)
             => /\ hist[i].res = Ok
                /\ hist[i].post.version = NextVersion(forkedAt.v)
          /\ forkedAt.v = Number(U64_MAX) => hist[i].res = VersionOverflow

\* C22 (amended): after cloning an aggregate at version v the two copies
\* are equal, a call on one copy leaves the state, version and
\* snapshot_version of the other unchanged, and
\* apply_with_concurrency_check(event, v) on a copy still at v never returns
\* VersionMismatch: it succeeds on each copy when v is not Number(u64::MAX)
\* and returns VersionOverflow on each copy when it is.
C22_ClonesAreIndependentAttempts ==
    [] C22_Attempts /\ [][CopiesIndependent]_vars

\* Both owners presented v with different events and both succeeded.
C22_Witness ==
    \E i, j \in FirstAttempts :
        /\ hist[i].caller = "original" /\ hist[j].caller = "copy"
        /\ hist[i].res = Ok /\ hist[j].res = Ok
        /\ hist[i].event # hist[j].event
        /\ copy.v.version = version
        /\ copy.v.state # state

----------------------------------------------------------------------------
(* Properties of the LinkedList, checked under SpecList *)

OptionFirst(s) == IF s = << >> THEN NoneV ELSE SomeV(Head(s))

OptionLast(s) == IF s = << >> THEN NoneV ELSE SomeV(s[Len(s)])

\* The values met from the front end along the next links, at most n of them.
RECURSIVE Walk(_, _, _)
Walk(list, at, n) ==
    IF at = NoneV \/ n = 0 THEN << >>
    ELSE << list.nodes[at.v].val >> \o Walk(list, list.nodes[at.v].next, n - 1)

\* C24: after any sequence of push_back, push_front, pop_back and pop_front
\* from new(), front() and back() return the first and the last element of
\* the double-ended queue (None when it is empty), pop_front and pop_back
\* return exactly those elements, and the elements left are linked in the
\* queue's order.
C24_BehavesAsDeque ==
    /\ LinkedList_front(SelfList) = OptionFirst(elems)
    /\ LinkedList_back(SelfList) = OptionLast(elems)
    /\ ret.op = "pop_front" => ret.out = OptionFirst(ret.was.elems)
    /\ ret.op = "pop_back" => ret.out = OptionLast(ret.was.elems)
    /\ Walk(SelfList, tail, Len(nodes)) = elems

\* C30: in every reachable list len is the number of elements stored and
\* never underflows; once the last element has been removed from either end
\* head and tail are both None, and a further pop returns None and leaves
\* len as it was.
C30_LenCountsElements ==
    /\ len = Len(elems)
    /\ ret.out # Panic
    /\ elems = << >> => head = NoneV /\ tail = NoneV
    /\ (ret.op \in {"pop_front", "pop_back"} /\ ret.was.elems = << >>)
       => ret.out = NoneV /\ len = ret.was.len

----------------------------------------------------------------------------
(* Properties of the shared list, checked under SpecConcurrentList *)

\* C23: when every thread has locked the list and pushed its own value, then,
\* whatever the interleaving, draining the list with into_iter yields exactly
\* the values pushed, each once, and nothing else.
C23_NoPushLostOrDuplicated ==
    CollectEnded
    => /\ Len(collected) = ListThreads
       /\ \A i \in ListThreadIds :
             Cardinality({k \in 1..Len(collected) : collected[k] = i}) = 1
       /\ \A k \in 1..Len(collected) : collected[k] \in ListThreadIds

\* The list was drained after the threads pushed in an order other than the
\* order they were spawned in.
C23_Witness ==
    /\ CollectEnded
    /\ Len(collected) = ListThreads
    /\ collected[1] # 0
    /\ collected[Len(collected)] = 0

----------------------------------------------------------------------------
(* Properties of the shared counter, checked under SpecCounter *)

\* C25: when each thread has called increment() on its clone of the one
\* counter, started at 0, then in every interleaving the value get() returns
\* after all the threads were joined is the number of threads times the
\* number of calls of each.
C25_NoLostIncrement ==
    got # NoneV => got.v = CounterThreads * Increments

\* get() was called after every thread made all its calls.
C25_Witness ==
    /\ got # NoneV
    /\ \A t \in CounterThreadIds : iter[t] = Increments /\ tmp[t] > 0
    /\ data > Increments

====
